---- MODULE Spec2Model ----
(***************************************************************************)
(* Model of the analytics core of kalshi-agent:                            *)
(*   backend/app/routers/analytics.py  (collectors, cost basis, reports)   *)
(*   backend/app/kalshi_client.py      (the client of the exchange)        *)
(*                                                                         *)
(* Time is counted in hours instead of milliseconds (the code only         *)
(* compares, subtracts and truncates timestamps to days, so the unit does  *)
(* not change any decision it takes); a date is the number of the day.     *)
(* An optional value (Python None or a value) is a sequence of length 0    *)
(* or 1.  Money is integer cents.                                          *)
(***************************************************************************)
EXTENDS Integers, Sequences, FiniteSets, TLC

VARIABLES
    srvSettlements, \* the exchange's settlement history, in the order it serves it
    srvFills,       \* the exchange's fill history, in the order it serves it
    srvKind,        \* how the exchange pages: "honest", "trailing" or "stale"
    srvPage,        \* the number of records the exchange puts on a page
    hostTz,         \* UTC offset (hours) of the host's local time zone
    key_string,     \* the configured private key string
    _client,        \* the module-level client instance of kalshi_client, if any
    clock,          \* the host's clock: milliseconds since the process started
    arrival,        \* when the second request arrives: "after" the first has ended,
                    \* or "during" it
    parked,         \* the frames of the requests that are not running (at most one)
    now,            \* the instant of the request (hours since epoch, UTC)
    period,         \* the request's period token
    endpoint,       \* the handler that serves the request
    pc,             \* where the request is: "client", "settlements", "fills", "reduce",
                    \* "done", "failed"
    cursor,         \* the collector's cursor variable
    calls,          \* page requests made so far by each collector
    all_settlements,\* the settlements collector's list
    all_fills,      \* the fills collector's list
    cost_by_ticker, \* the handler's cost-basis map (empty until it is computed)
    sent,           \* the last HTTP request _request handed to the HTTP client, if any
    outstanding,    \* the page requests of this handler that await their response
    response,       \* the status of the last HTTP response _request received, if any
    raised,         \* the error _request raised, if any
    report,         \* the response body of the request, if any
    error           \* the error the request ended with, if any

vars == <<srvSettlements, srvFills, srvKind, srvPage, hostTz, key_string, _client,
          clock, arrival, parked, now, period, endpoint,
          pc, cursor, calls, all_settlements, all_fills, cost_by_ticker,
          sent, outstanding, response, raised, report, error>>

(***************************************************************************)
(* Bounds of the model.                                                    *)
(***************************************************************************)
MaxFills == 2        \* longest fill history in the cost-basis specification
MaxRecs == 2         \* longest history in the reconciliation specifications
MaxPaged == 3        \* longest history in the pagination specifications
MaxPage == 2         \* largest page the exchange serves in the pagination specifications
MaxRated == 3        \* longest settlement history in the rate specification
MaxClock == 1        \* the last millisecond the model's clock reaches

\* The collectors' lists and call counters grow without bound against an
\* exchange that never ends the listing.  The model keeps the first MaxCollected
\* records of a list, and counts the page requests exactly up to MaxCalls;
\* beyond that it keeps the parity of the count (MaxCalls - 1, MaxCalls,
\* MaxCalls - 1, ...), both values being more than any bound stated on it.
MaxCalls == MaxPaged + 4
MaxCollected == MaxPaged + 2

(***************************************************************************)
(* Generic helpers.                                                        *)
(***************************************************************************)
None == <<>>
Some(v) == <<v>>
Min(a, b) == IF a <= b THEN a ELSE b
Abs(x) == IF x < 0 THEN -x ELSE x

\* Python truthiness of an optional integer: None and 0 are falsy.
Truthy(opt) == opt # None /\ opt[1] # 0

SeqsUpTo(S, n) == UNION {[1..k -> S] : k \in 0..n}

\* The sum of f[x] over x in S, for a function f.
RECURSIVE SumFn(_, _)
SumFn(f, S) ==
    IF S = {} THEN 0
    ELSE LET x == CHOOSE y \in S : TRUE IN f[x] + SumFn(f, S \ {x})

\* dict.get(key, 0)
Get0(d, k) == IF k \in DOMAIN d THEN d[k] ELSE 0

(***************************************************************************)
(* Timestamps.  kind "int": v is the epoch count; kind "str": an ISO-8601  *)
(* text with wall-clock reading v and UTC offset off ("Z" is offset 0);    *)
(* kind "naive": an ISO-8601 text with no offset; kind "bad": a text that  *)
(* does not parse; kind "none": the field is absent.                       *)
(***************************************************************************)
DayLen == 24

TsInt(v) == [kind |-> "int", v |-> v, off |-> 0]
TsStr(v, off) == [kind |-> "str", v |-> v, off |-> off]
TsNaive(v) == [kind |-> "naive", v |-> v, off |-> 0]
TsBad == [kind |-> "bad", v |-> 0, off |-> 0]
TsNone == [kind |-> "none", v |-> 0, off |-> 0]

\* `not ts` for a timestamp field: None, the integer 0 (a text is never empty here)
TsFalsy(ts) == ts.kind = "none" \/ (ts.kind = "int" /\ ts.v = 0)

parse_timestamp_to_ms(ts, tz) ==
    CASE ts.kind = "none" -> None
      [] ts.kind = "int" -> Some(ts.v)
      [] ts.kind = "str" -> Some(ts.v - ts.off)
      [] ts.kind = "naive" -> Some(ts.v - tz)
      [] OTHER -> None

timestamp_to_date_str(ts, tz) ==
    CASE ts.kind = "none" -> None
      [] ts.kind = "int" -> Some((ts.v + tz) \div DayLen)
      [] ts.kind = "str" -> Some(ts.v \div DayLen)
      [] ts.kind = "naive" -> Some(ts.v \div DayLen)
      [] OTHER -> None

(***************************************************************************)
(* Period tokens.                                                          *)
(***************************************************************************)
Hours1h == 1
Hours1d == 24
Hours7d == 168
Hours30d == 720

\* datetime.utcnow() is a naive datetime holding the UTC wall clock, and
\* .timestamp() reads a naive datetime as local time.
UtcNowTimestamp(t, tz) == t - tz

PeriodFloor(p, t, tz) ==
    CASE p = "1h" -> Some(UtcNowTimestamp(t, tz) - Hours1h)
      [] p = "1d" -> Some(UtcNowTimestamp(t, tz) - Hours1d)
      [] p = "7d" -> Some(UtcNowTimestamp(t, tz) - Hours7d)
      [] p = "30d" -> Some(UtcNowTimestamp(t, tz) - Hours30d)
      [] OTHER -> None

\* `min_ts and settled_time_ms and settled_time_ms < min_ts`
BeforeFloor(min_ts, ms) == Truthy(min_ts) /\ Truthy(ms) /\ ms[1] < min_ts[1]

(***************************************************************************)
(* Records of the exchange.                                                *)
(*   fill:       ticker, side, action, count, yes_price, no_price,         *)
(*               created_time                                              *)
(*   settlement: ticker, revenue, settled_time                             *)
(* NoTicker is a missing (or empty) ticker field.  A record may lack a     *)
(* numeric field (count, yes_price, no_price, revenue).                    *)
(***************************************************************************)
NoTicker == ""

Fill(t, sd, a, c, yp, np, ts) ==
    [ticker |-> t, side |-> sd, action |-> a, count |-> c,
     yes_price |-> yp, no_price |-> np, created_time |-> ts]

Settlement(t, r, ts) == [ticker |-> t, revenue |-> r, settled_time |-> ts]

\* a record that lacks field k
Without(rec, k) == [x \in DOMAIN rec \ {k} |-> rec[x]]

\* a slip of NumField: a missing number taken for 1
NumFieldDefaultOne(rec, k) == IF k \in DOMAIN rec THEN rec[k] ELSE 1

\* rec.get(k, 0) of a numeric field
NumField(rec, k) == IF k \in DOMAIN rec THEN rec[k] ELSE 0

(***************************************************************************)
(* calculate_cost_basis_by_ticker                                          *)
(***************************************************************************)
\* defaultdict(int): d[k] += x
AddTo(d, k, x) ==
    [y \in DOMAIN d \cup {k} |-> IF y = k THEN Get0(d, k) + x ELSE d[y]]

EmptyDict == [y \in {} |-> 0]

\* the price of the side traded
FillPrice(fill) ==
    IF fill.side = "yes" THEN NumField(fill, "yes_price") ELSE NumField(fill, "no_price")

\* One iteration of the loop over the fills is CostStep, below.  Three slips of
\* it: a buy that assigns instead of adding; a sign that follows the side as
\* well as the action; a loop that does not skip the fill without a ticker.
CostStepOverwrite(costs, fill) ==
    IF fill.ticker = NoTicker THEN costs
    ELSE LET cost == NumField(fill, "count") * FillPrice(fill)
         IN  IF fill.action = "buy"
             THEN [y \in DOMAIN costs \cup {fill.ticker} |->
                      IF y = fill.ticker THEN cost ELSE costs[y]]
             ELSE AddTo(costs, fill.ticker, -cost)

CostStepSideSigned(costs, fill) ==
    IF fill.ticker = NoTicker THEN costs
    ELSE LET cost == NumField(fill, "count") * FillPrice(fill)
         IN  IF (fill.action = "buy") = (fill.side = "yes")
             THEN AddTo(costs, fill.ticker, cost)
             ELSE AddTo(costs, fill.ticker, -cost)

CostStepKeyAlways(costs, fill) ==
    LET cost == NumField(fill, "count") * FillPrice(fill)
    IN  IF fill.action = "buy"
        THEN AddTo(costs, fill.ticker, cost)
        ELSE AddTo(costs, fill.ticker, -cost)

CostStep(costs, fill) ==
    IF fill.ticker = NoTicker THEN costs
    ELSE LET cost == NumField(fill, "count") * FillPrice(fill)
         IN  IF fill.action = "buy"
             THEN AddTo(costs, fill.ticker, cost)
             ELSE AddTo(costs, fill.ticker, -cost)

RECURSIVE CostLoop(_, _)
CostLoop(costs, fills) ==
    IF fills = <<>> THEN costs
    ELSE CostLoop(CostStep(costs, Head(fills)), Tail(fills))

calculate_cost_basis_by_ticker(fills) == CostLoop(EmptyDict, fills)

(***************************************************************************)
(* Reconciliation of one settlement (the same lines in the three           *)
(* handlers).                                                              *)
(***************************************************************************)
\* cost_by_ticker.get(ticker, 0)
CostLookup(costs, ticker) == Get0(costs, ticker)

\* a slip of TruePnl: the payout taken for the profit
TruePnlRawPayout(s, costs) == NumField(s, "revenue")

\* true_pnl = revenue - cost_basis
TruePnl(s, costs) == NumField(s, "revenue") - CostLookup(costs, s.ticker)

(***************************************************************************)
(* get_daily_pnl                                                           *)
(***************************************************************************)
ZeroBucket ==
    [realized_pnl |-> 0, settlement_count |-> 0, wins |-> 0, losses |-> 0,
     trade_count |-> 0, volume |-> 0]

\* daily_data[date_str] of the defaultdict
Bucket(daily_data, d) == IF d \in DOMAIN daily_data THEN daily_data[d] ELSE ZeroBucket

PutBucket(daily_data, d, b) ==
    [y \in DOMAIN daily_data \cup {d} |-> IF y = d THEN b ELSE daily_data[y]]

\* whether the loop over the settlements skips s (the three `continue`s)
DailySkipsSettlement(s, min_ts, tz) ==
    \/ TsFalsy(s.settled_time)
    \/ BeforeFloor(min_ts, parse_timestamp_to_ms(s.settled_time, tz))
    \/ timestamp_to_date_str(s.settled_time, tz) = None

\* a slip of DailySettlementStep: a settlement counted only when it is a win
\* or a loss
DailySettlementStepSkipsZero(daily_data, s, min_ts, costs, tz) ==
    IF DailySkipsSettlement(s, min_ts, tz) THEN daily_data
    ELSE LET d == timestamp_to_date_str(s.settled_time, tz)[1]
             true_pnl == TruePnl(s, costs)
             b == Bucket(daily_data, d)
         IN  PutBucket(daily_data, d,
                 [b EXCEPT !.realized_pnl = @ + true_pnl,
                           !.settlement_count = IF true_pnl = 0 THEN @ ELSE @ + 1,
                           !.wins = IF true_pnl > 0 THEN @ + 1 ELSE @,
                           !.losses = IF true_pnl < 0 THEN @ + 1 ELSE @])

\* one iteration of the loop over the settlements
DailySettlementStep(daily_data, s, min_ts, costs, tz) ==
    IF DailySkipsSettlement(s, min_ts, tz) THEN daily_data
    ELSE LET d == timestamp_to_date_str(s.settled_time, tz)[1]
             true_pnl == TruePnl(s, costs)
             b == Bucket(daily_data, d)
         IN  PutBucket(daily_data, d,
                 [b EXCEPT !.realized_pnl = @ + true_pnl,
                           !.settlement_count = @ + 1,
                           !.wins = IF true_pnl > 0 THEN @ + 1 ELSE @,
                           !.losses = IF true_pnl > 0 THEN @
                                      ELSE IF true_pnl < 0 THEN @ + 1 ELSE @])

RECURSIVE DailySettlementLoop(_, _, _, _, _)
DailySettlementLoop(daily_data, ss, min_ts, costs, tz) ==
    IF ss = <<>> THEN daily_data
    ELSE DailySettlementLoop(
             DailySettlementStep(daily_data, Head(ss), min_ts, costs, tz),
             Tail(ss), min_ts, costs, tz)

DailySkipsFill(fill, min_ts, tz) ==
    \/ TsFalsy(fill.created_time)
    \/ BeforeFloor(min_ts, parse_timestamp_to_ms(fill.created_time, tz))
    \/ timestamp_to_date_str(fill.created_time, tz) = None

\* one iteration of the loop over the fills
DailyFillStep(daily_data, fill, min_ts, tz) ==
    IF DailySkipsFill(fill, min_ts, tz) THEN daily_data
    ELSE LET d == timestamp_to_date_str(fill.created_time, tz)[1]
             b == Bucket(daily_data, d)
         IN  PutBucket(daily_data, d,
                 [b EXCEPT !.trade_count = @ + 1,
                           !.volume = @ + NumField(fill, "count") * FillPrice(fill)])

RECURSIVE DailyFillLoop(_, _, _, _)
DailyFillLoop(daily_data, fills, min_ts, tz) ==
    IF fills = <<>> THEN daily_data
    ELSE DailyFillLoop(DailyFillStep(daily_data, Head(fills), min_ts, tz),
                       Tail(fills), min_ts, tz)

\* a slip of SortedKeys: the dates sorted latest first
RECURSIVE SortedKeysDescending(_)
SortedKeysDescending(S) ==
    IF S = {} THEN <<>>
    ELSE LET m == CHOOSE x \in S : \A y \in S : x >= y
         IN  <<m>> \o SortedKeysDescending(S \ {m})

\* sorted(keys): the dates are "%Y-%m-%d" texts, whose order as texts is the
\* order of the days
RECURSIVE SortedKeys(_)
SortedKeys(S) ==
    IF S = {} THEN <<>>
    ELSE LET m == CHOOSE x \in S : \A y \in S : x <= y
         IN  <<m>> \o SortedKeys(S \ {m})

DailyRow(daily_data, d) ==
    [date |-> d,
     realized_pnl |-> daily_data[d].realized_pnl,
     settlement_count |-> daily_data[d].settlement_count,
     wins |-> daily_data[d].wins,
     losses |-> daily_data[d].losses,
     trade_count |-> daily_data[d].trade_count,
     volume |-> daily_data[d].volume]

\* the body of get_daily_pnl after the two fetches
DailyPnlReport(settlements, fills, p, min_ts, tz) ==
    LET costs == calculate_cost_basis_by_ticker(fills)
        after_settlements ==
            DailySettlementLoop(EmptyDict, settlements, min_ts, costs, tz)
        daily_data == DailyFillLoop(after_settlements, fills, min_ts, tz)
        keys == SortedKeys(DOMAIN daily_data)
    IN  [kind |-> "daily_pnl",
         daily_pnl |-> [i \in 1..Len(keys) |-> DailyRow(daily_data, keys[i])],
         period |-> p]

(***************************************************************************)
(* get_cumulative_pnl                                                      *)
(***************************************************************************)
\* a slip of CumulativeStep: the running total not carried over
CumulativeStepNoCarry(running_total, day) == day.realized_pnl

\* running_total += day["realized_pnl"]
CumulativeStep(running_total, day) == running_total + day.realized_pnl

CumulativeRow(day, running_total) ==
    [date |-> day.date,
     daily_pnl |-> day.realized_pnl,
     cumulative_pnl |-> running_total,
     trade_count |-> day.trade_count]

RECURSIVE CumulativeLoop(_, _, _)
CumulativeLoop(cumulative, running_total, days) ==
    IF days = <<>> THEN cumulative
    ELSE LET total == CumulativeStep(running_total, Head(days))
         IN  CumulativeLoop(Append(cumulative, CumulativeRow(Head(days), total)),
                            total, Tail(days))

\* the body of get_cumulative_pnl after get_daily_pnl has returned
CumulativePnlReport(daily) ==
    [kind |-> "cumulative_pnl",
     cumulative_pnl |-> CumulativeLoop(<<>>, 0, daily.daily_pnl),
     period |-> daily.period]

(***************************************************************************)
(* get_win_rate                                                            *)
(***************************************************************************)
WinRateSkipsSettlement(s, min_ts, tz) ==
    BeforeFloor(min_ts, parse_timestamp_to_ms(s.settled_time, tz))

ZeroStats == [wins |-> 0, losses |-> 0, total_win_amount |-> 0, total_loss_amount |-> 0]

\* one iteration of the loop over the settlements
WinRateStep(st, s, min_ts, costs, tz) ==
    IF WinRateSkipsSettlement(s, min_ts, tz) THEN st
    ELSE LET true_pnl == TruePnl(s, costs)
         IN  IF true_pnl > 0
             THEN [st EXCEPT !.wins = @ + 1, !.total_win_amount = @ + true_pnl]
             ELSE IF true_pnl < 0
             THEN [st EXCEPT !.losses = @ + 1, !.total_loss_amount = @ + Abs(true_pnl)]
             ELSE st

RECURSIVE WinRateLoop(_, _, _, _, _)
WinRateLoop(st, ss, min_ts, costs, tz) ==
    IF ss = <<>> THEN st
    ELSE WinRateLoop(WinRateStep(st, Head(ss), min_ts, costs, tz),
                     Tail(ss), min_ts, costs, tz)

\* a / b of two integers is a float: kept as the fraction it is
Ratio(a, b) == [num |-> a, den |-> b]

\* a slip of WinRatePct: the percentage cut to two decimals, not rounded
WinRatePctTruncated(wins, total) ==
    IF total > 0 THEN (wins * 10000) \div total ELSE 0

\* round(wins / total * 100, 2), in hundredths of a percent; round() rounds a
\* tie to the even neighbour
WinRatePct(wins, total) ==
    IF total > 0
    THEN LET q == (wins * 10000) \div total
             r == (wins * 10000) % total
         IN  IF 2 * r > total \/ (2 * r = total /\ q % 2 = 1) THEN q + 1 ELSE q
    ELSE 0

\* a slip of AvgOrZero: the division made without looking at the count
AvgUnguarded(amount, n) == Ratio(amount, n)

\* (total_win_amount / wins) if wins > 0 else 0, and the same for the losses.
\* A Ratio whose den is 0 is the division Python refuses (ZeroDivisionError).
AvgOrZero(amount, n) == IF n > 0 THEN Ratio(amount, n) ELSE Ratio(0, 1)

\* the body of get_win_rate after the two fetches
WinRateReport(settlements, fills, p, min_ts, tz) ==
    LET costs == calculate_cost_basis_by_ticker(fills)
        st == WinRateLoop(ZeroStats, settlements, min_ts, costs, tz)
        total == st.wins + st.losses
    IN  [kind |-> "win_rate",
         wins |-> st.wins,
         losses |-> st.losses,
         total |-> total,
         win_rate |-> WinRatePct(st.wins, total),
         avg_win |-> AvgOrZero(st.total_win_amount, st.wins),
         avg_loss |-> AvgOrZero(st.total_loss_amount, st.losses),
         net_pnl |-> st.total_win_amount - st.total_loss_amount,
         period |-> p]

(***************************************************************************)
(* get_market_breakdown                                                    *)
(***************************************************************************)
BreakdownSkipsSettlement(s, min_ts, tz) ==
    BeforeFloor(min_ts, parse_timestamp_to_ms(s.settled_time, tz))

ZeroTicker == [pnl |-> 0, wins |-> 0, losses |-> 0, count |-> 0]

\* by_ticker is a dict, which keeps its keys in the order they were inserted:
\* a record of the key order and of the data per key.
EmptyByTicker == [order |-> <<>>, data |-> EmptyDict]

\* one iteration of the loop over the settlements
BreakdownStep(by_ticker, s, min_ts, costs, tz) ==
    IF BreakdownSkipsSettlement(s, min_ts, tz) THEN by_ticker
    ELSE LET true_pnl == TruePnl(s, costs)
             t == s.ticker
             old == IF t \in DOMAIN by_ticker.data THEN by_ticker.data[t] ELSE ZeroTicker
             new == [old EXCEPT !.pnl = @ + true_pnl,
                                !.count = @ + 1,
                                !.wins = IF true_pnl > 0 THEN @ + 1 ELSE @,
                                !.losses = IF true_pnl > 0 THEN @
                                           ELSE IF true_pnl < 0 THEN @ + 1 ELSE @]
         IN  [order |-> IF t \in DOMAIN by_ticker.data THEN by_ticker.order
                        ELSE Append(by_ticker.order, t),
              data |-> [y \in DOMAIN by_ticker.data \cup {t} |->
                           IF y = t THEN new ELSE by_ticker.data[y]]]

RECURSIVE BreakdownLoop(_, _, _, _, _)
BreakdownLoop(by_ticker, ss, min_ts, costs, tz) ==
    IF ss = <<>> THEN by_ticker
    ELSE BreakdownLoop(BreakdownStep(by_ticker, Head(ss), min_ts, costs, tz),
                       Tail(ss), min_ts, costs, tz)

BreakdownRow(by_ticker, t) ==
    LET data == by_ticker.data[t]
    IN  [ticker |-> t, pnl |-> data.pnl, wins |-> data.wins, losses |-> data.losses,
         count |-> data.count,
         win_rate |-> WinRatePct(data.wins, data.wins + data.losses)]

\* list.sort(key=lambda x: abs(x["pnl"]), reverse=True): a stable sort, so rows
\* of equal |pnl| keep the order they had.  Insertion of row x into a sorted list:
\* a slip of SortKey: the rows sorted by their signed P/L
SortKeySigned(row) == row.pnl

\* key=lambda x: abs(x["pnl"])
SortKey(row) == Abs(row.pnl)

RECURSIVE InsertByAbsPnl(_, _)
InsertByAbsPnl(sorted, x) ==
    IF sorted = <<>> THEN <<x>>
    ELSE IF SortKey(x) > SortKey(Head(sorted)) THEN <<x>> \o sorted
    ELSE <<Head(sorted)>> \o InsertByAbsPnl(Tail(sorted), x)

RECURSIVE SortByAbsPnl(_)
SortByAbsPnl(rows) ==
    IF rows = <<>> THEN <<>>
    ELSE InsertByAbsPnl(SortByAbsPnl(SubSeq(rows, 1, Len(rows) - 1)), rows[Len(rows)])

\* the body of get_market_breakdown after the two fetches
BreakdownReport(settlements, fills, p, min_ts, tz) ==
    LET costs == calculate_cost_basis_by_ticker(fills)
        by_ticker == BreakdownLoop(EmptyByTicker, settlements, min_ts, costs, tz)
        result == [i \in 1..Len(by_ticker.order) |-> BreakdownRow(by_ticker, by_ticker.order[i])]
    IN  [kind |-> "breakdown", breakdown |-> SortByAbsPnl(result), period |-> p]

(***************************************************************************)
(* The exchange, as KalshiClient.get_fills / get_settlements consume it.   *)
(* A cursor is an opaque text; the model's cursor is the number of records *)
(* already served.  The exchange serves at most `limit` records per page.  *)
(*   "honest":   no cursor comes with the last page                       *)
(*   "trailing": a cursor comes with every page, the empty one past the    *)
(*               end included                                              *)
(*   "stale":    every request that carries a cursor gets that cursor back *)
(***************************************************************************)
Limit == 100

\* get_fills: `if min_ts: params["min_ts"] = min_ts`; the exchange then serves
\* only the fills created at or after min_ts
ServedFills(fills, min_ts) ==
    IF Truthy(min_ts)
    THEN SelectSeq(fills, LAMBDA f :
             LET ms == parse_timestamp_to_ms(f.created_time, 0)
             IN  ms # None /\ ms[1] >= min_ts[1])
    ELSE fills

\* `if cursor: params["cursor"] = cursor`, and the exchange's answer
ExchangePage(data, kind, limit, cur) ==
    LET size == Min(srvPage, limit)
        pos == IF cur = None THEN 0 ELSE cur[1]
        last == Min(pos + size, Len(data))
    IN  [records |-> SubSeq(data, pos + 1, last),
         cursor |-> CASE kind = "honest" -> IF last >= Len(data) THEN None ELSE Some(last)
                      [] kind = "trailing" -> Some(last)
                      [] OTHER -> IF cur = None THEN Some(last) ELSE cur]

(***************************************************************************)
(* get_all_fills / get_all_settlements: one turn of the `while True` loop  *)
(***************************************************************************)
\* CollectTurn, below, is the loop body.  Two slips of it: a loop that ends on
\* the absent cursor only; a loop that tests for its end before it appends.
CollectTurnCursorOnly(all, data) ==
    [all |-> all \o data.records,
     cursor |-> data.cursor,
     stop |-> data.cursor = None]

CollectTurnBreakFirst(all, data) ==
    [all |-> IF data.cursor = None \/ data.records = <<>> THEN all
             ELSE all \o data.records,
     cursor |-> data.cursor,
     stop |-> data.cursor = None \/ data.records = <<>>]

CollectTurn(all, data) ==
    [all |-> all \o data.records,
     cursor |-> data.cursor,
     stop |-> data.cursor = None \/ data.records = <<>>]

\* what the model keeps of a list and of a counter that grow without bound
Kept(all) == IF Len(all) <= MaxCollected THEN all ELSE SubSeq(all, 1, MaxCollected)
Counted(n) == IF n <= MaxCalls THEN n ELSE MaxCalls - 1

\* a slip of FillsMinTs: the window's floor handed to the fills collector
FillsMinTsWindow(min_ts) == min_ts

\* the min_ts the handlers give get_all_fills: none (`get_all_fills(client)`)

FillsMinTs(min_ts) == None

\* a slip of OnPageError: a collector that catches the error and returns the
\* pages it has
OnPageErrorSwallow(e, at) ==
    [pc |-> IF at = "settlements" THEN "fills" ELSE "reduce", error |-> None]

\* a failed page request: the exception leaves the collector and the handler,
\* neither of which catches it
OnPageError(e, at) == [pc |-> "failed", error |-> Some(e)]

(***************************************************************************)
(* KalshiClient.__init__, _load_private_key and get_kalshi_client          *)
(*                                                                         *)
(* A key string has a shape: "pem" (BEGIN and END lines, a line break      *)
(* after the header), "flat" (header, body and footer without line breaks) *)
(* or "bare" (a body without header and footer).  The PEM parser is the    *)
(* cryptography library's; `parses` is the set of the candidate texts of   *)
(* the key string it accepts: "given" (the string as it is), "reflowed"    *)
(* (line breaks re-inserted), "rsa", "ec", "pkcs8" (the bare body between  *)
(* the headers of that kind).                                              *)
(***************************************************************************)
KeyString(shape, parses) == [shape |-> shape, parses |-> parses]

\* the key object load_pem_private_key returns for a candidate text
PrivateKey(candidate) == [encoding |-> candidate]

ValueError == [type |-> "ValueError", status |-> 0]

\* a slip of _load_private_key: the EC header tried before the RSA header
LoadPrivateKeyEcFirst(k) ==
    LET first == IF k.shape = "flat" THEN "reflowed" ELSE "given"
    IN  IF first \in k.parses THEN Some(PrivateKey(first))
        ELSE IF k.shape = "bare"
        THEN IF "ec" \in k.parses THEN Some(PrivateKey("ec"))
             ELSE IF "rsa" \in k.parses THEN Some(PrivateKey("rsa"))
             ELSE IF "pkcs8" \in k.parses THEN Some(PrivateKey("pkcs8"))
             ELSE None
        ELSE None

\* The key, or None where the code raises ValueError("Could not load private
\* key").  A flat string is rewritten with line breaks before the first attempt;
\* the three wrapped candidates are tried only if the string has no header.
_load_private_key(k) ==
    LET first == IF k.shape = "flat" THEN "reflowed" ELSE "given"
    IN  IF first \in k.parses THEN Some(PrivateKey(first))
        ELSE IF k.shape = "bare"
        THEN IF "rsa" \in k.parses THEN Some(PrivateKey("rsa"))
             ELSE IF "ec" \in k.parses THEN Some(PrivateKey("ec"))
             ELSE IF "pkcs8" \in k.parses THEN Some(PrivateKey("pkcs8"))
             ELSE None
        ELSE None

\* KalshiClient(): the instance, or None where __init__ raises
KalshiClient(k) ==
    LET loaded == _load_private_key(k)
    IN  IF loaded = None THEN None
        ELSE Some([api_key_id |-> "key-id", private_key |-> loaded[1]])

\* get_kalshi_client(): the value of _client after the call, and the client
\* returned (None where the call raises)
get_kalshi_client(current, k) ==
    IF current = None
    THEN LET made == KalshiClient(k)
         IN  IF made = None THEN [_client |-> current, returns |-> None]
             ELSE [_client |-> made, returns |-> made]
    ELSE [_client |-> current, returns |-> current]

\* a key string in a well-formed PEM that parses
GoodKey == KeyString("pem", {"given"})

(***************************************************************************)
(* KalshiClient._sign_request, _get_headers, get_settlements, get_fills    *)
(***************************************************************************)
\* str(int(time.time() * 1000)) for a clock that reads t milliseconds
TimestampText(t) == ToString(t)

\* method.upper()
Upper(method) ==
    CASE method = "get" -> "GET"
      [] method = "post" -> "POST"
      [] OTHER -> method

\* a slip of FullPath: the path signed as it is requested
FullPathBare(path) == path

\* full_path = f"/trade-api/v2{path}"
FullPath(path) == "/trade-api/v2" \o path

\* The signature of the text timestamp + method + path under the private key.
\* The salt of RSA-PSS and the nonce of ECDSA are left out: the value stands
\* for every signature that verifies for this key and this message.
_sign_request(private_key, timestamp, method, path) ==
    [signer |-> private_key, message |-> timestamp \o method \o path]

\* the headers of a request made when the clock reads t
_get_headers(client, t, method, path) ==
    LET timestamp == TimestampText(t)
        signature == _sign_request(client.private_key, timestamp, method, FullPath(path))
    IN  ("KALSHI-ACCESS-KEY" :> client.api_key_id)
        @@ ("KALSHI-ACCESS-SIGNATURE" :> signature)
        @@ ("KALSHI-ACCESS-TIMESTAMP" :> timestamp)
        @@ ("Content-Type" :> "application/json")

\* the first half of _request: what it hands to client.request
HttpRequest(client, t, method, path, params) ==
    [method |-> method, path |-> path, params |-> params,
     headers |-> _get_headers(client, t, Upper(method), path)]

\* a slip of CursorParam: the cursor never sent
CursorParamNever(cur) == EmptyDict

\* `if cursor: params["cursor"] = cursor`; a cursor the exchange gives is a
\* non-empty text
CursorParam(cur) == IF cur # None THEN "cursor" :> cur[1] ELSE EmptyDict

\* `if min_ts: params["min_ts"] = min_ts`
MinTsParam(min_ts) == IF Truthy(min_ts) THEN "min_ts" :> min_ts[1] ELSE EmptyDict

get_settlements(client, t, limit, cur) ==
    HttpRequest(client, t, "GET", "/portfolio/settlements",
                ("limit" :> limit) @@ CursorParam(cur))

get_fills(client, t, limit, cur, min_ts) ==
    HttpRequest(client, t, "GET", "/portfolio/fills",
                ("limit" :> limit) @@ CursorParam(cur) @@ MinTsParam(min_ts))

\* the cursor and the min_ts a request carries, if any
RequestCursor(req) ==
    IF "cursor" \in DOMAIN req.params THEN Some(req.params["cursor"]) ELSE None
RequestMinTs(req) ==
    IF "min_ts" \in DOMAIN req.params THEN Some(req.params["min_ts"]) ELSE None

(***************************************************************************)
(* KalshiClient._request                                                   *)
(***************************************************************************)
\* the statuses the exchange answers with: success, a redirect (the client
\* follows none), not found, a server error
Statuses == {200, 301, 404, 500}

\* httpx Response.is_success
Is2xx(status) == status \div 100 = 2

\* the body of a non-2xx response: an error document without records or cursor
ErrorBody == [records |-> <<>>, cursor |-> None]

\* the responses the exchange may give to a request whose page is `page`
HttpResponses(page) ==
    {[status |-> st, body |-> IF Is2xx(st) THEN page ELSE ErrorBody] : st \in Statuses}

\* httpx.HTTPStatusError, which carries the response and so its status code
HTTPStatusError(status) == [type |-> "HTTPStatusError", status |-> status]

\* an error of client.request itself (connection, timeout): there is no response
TransportError == [type |-> "TransportError", status |-> 0]

\* a slip of _request: a 404 taken for an empty answer
RequestTolerates404(resp) ==
    IF Is2xx(resp.status) \/ resp.status = 404
    THEN [returns |-> Some(resp.body), raises |-> None]
    ELSE [returns |-> None, raises |-> Some(HTTPStatusError(resp.status))]

\* response.raise_for_status(); return response.json()
\* raise_for_status() raises for every response that is not a success
_request(resp) ==
    IF Is2xx(resp.status)
    THEN [returns |-> Some(resp.body), raises |-> None]
    ELSE [returns |-> None, raises |-> Some(HTTPStatusError(resp.status))]

Endpoints == {"daily_pnl", "cumulative_pnl", "win_rate", "breakdown"}

(***************************************************************************)
(* The request.                                                            *)
(***************************************************************************)
\* the floor the handler computes from its period token
request_min_ts == PeriodFloor(period, now, hostTz)

\* the local variables of a handler that has not run yet
StartFrame(e, p) ==
    [endpoint |-> e, period |-> p, pc |-> "client", cursor |-> None,
     calls |-> [settlements |-> 0, fills |-> 0],
     all_settlements |-> <<>>, all_fills |-> <<>>, cost_by_ticker |-> EmptyDict,
     sent |-> None, outstanding |-> 0,
     response |-> None, raised |-> None, report |-> None, error |-> None]

\* The process has just started: no client instance exists yet.  Two requests
\* have been received; one is about to run and the other waits.
InitEnv(SS, FS, Kinds, Pages, Tzs, Nows, Periods, Keys, Arrivals, Others) ==
    /\ srvSettlements \in SS
    /\ srvFills \in FS
    /\ srvKind \in Kinds
    /\ srvPage \in Pages
    /\ hostTz \in Tzs
    /\ key_string \in Keys
    /\ _client = None
    /\ clock = 0
    /\ arrival \in Arrivals
    /\ now \in Nows
    /\ period \in Periods
    /\ endpoint \in Endpoints
    /\ parked \in {<<StartFrame(e, period)>> : e \in Others}
    /\ pc = "client"
    /\ cursor = None
    /\ calls = [settlements |-> 0, fills |-> 0]
    /\ all_settlements = <<>>
    /\ all_fills = <<>>
    /\ cost_by_ticker = EmptyDict
    /\ sent = None
    /\ outstanding = 0
    /\ response = None
    /\ raised = None
    /\ report = None
    /\ error = None

\* a well-formed key, and the same request made again once the first has ended
InitWith(SS, FS, Kinds, Pages, Tzs, Nows, Periods) ==
    InitEnv(SS, FS, Kinds, Pages, Tzs, Nows, Periods, {GoodKey}, {"after"}, {endpoint})

\* what no step of a handler changes
env == <<srvSettlements, srvFills, srvKind, srvPage, hostTz, key_string, arrival, now>>
inputs == <<env, parked, period, endpoint>>
\* the requests on the wire and the clock their headers are stamped with
wire == <<clock, sent, outstanding>>

\* the handler's first statement, client = get_kalshi_client(); an error of the
\* construction leaves the handler
GetKalshiClient ==
    /\ pc = "client"
    /\ LET got == get_kalshi_client(_client, key_string)
       IN  /\ _client' = got._client
           /\ IF got.returns = None
              THEN pc' = "failed" /\ error' = Some(ValueError)
              ELSE pc' = "settlements" /\ error' = error
    /\ UNCHANGED <<inputs, wire, cursor, calls, all_settlements, all_fills, cost_by_ticker,
                   response, raised, report>>

\* a slip of Suspended: a handler that goes on without its response
SuspendedNever(n) == FALSE

\* `await self.client.request(...)`: a handler with a request on the wire does
\* not run until the response is there
Suspended(n) == n > 0

\* the clock readings the next call of time.time() may give: time does not
\* run backwards, and the model's clock stops at MaxClock
ClockReadings == {t \in {clock, clock + 1} : t <= MaxClock}

\* A collector calls client.get_settlements / client.get_fills with its cursor:
\* _request makes the headers and hands the request to the HTTP client, and the
\* handler is suspended at the await until the response is there.
SendPage ==
    /\ pc \in {"settlements", "fills"}
    /\ ~Suspended(outstanding)
    /\ \E t \in ClockReadings :
          /\ clock' = t
          /\ sent' = Some(IF pc = "settlements"
                          THEN get_settlements(_client[1], t, Limit, cursor)
                          ELSE get_fills(_client[1], t, Limit, cursor,
                                         FillsMinTs(request_min_ts)))
    /\ outstanding' = outstanding + 1
    /\ UNCHANGED <<_client, inputs, pc, cursor, calls, all_settlements, all_fills, cost_by_ticker,
                   response, raised, report, error>>

\* the response of a settlements page request arrives: the second half of
\* _request and the rest of the turn of the loop of get_all_settlements
GetSettlementsPage ==
    /\ pc = "settlements"
    /\ outstanding > 0
    /\ \E resp \in HttpResponses(ExchangePage(srvSettlements, srvKind, sent[1].params["limit"],
                                              RequestCursor(sent[1]))) :
          LET out == _request(resp)
          IN  /\ response' = Some(resp.status)
              /\ IF out.raises = None
                 THEN LET turn == CollectTurn(all_settlements, out.returns[1])
                      IN  /\ all_settlements' = Kept(turn.all)
                          /\ cursor' = IF turn.stop THEN None ELSE turn.cursor
                          /\ pc' = IF turn.stop THEN "fills" ELSE pc
                          /\ UNCHANGED <<raised, error>>
                 ELSE /\ raised' = out.raises
                      /\ pc' = OnPageError(out.raises[1], pc).pc
                      /\ error' = OnPageError(out.raises[1], pc).error
                      /\ UNCHANGED <<all_settlements, cursor>>
    /\ calls' = [calls EXCEPT !.settlements = Counted(@ + 1)]
    /\ outstanding' = outstanding - 1
    /\ UNCHANGED <<_client, inputs, clock, sent, all_fills, cost_by_ticker, report>>

\* the response of a fills page request arrives: the second half of _request
\* and the rest of the turn of the loop of get_all_fills
GetFillsPage ==
    /\ pc = "fills"
    /\ outstanding > 0
    /\ \E resp \in HttpResponses(ExchangePage(ServedFills(srvFills, RequestMinTs(sent[1])),
                                              srvKind, sent[1].params["limit"],
                                              RequestCursor(sent[1]))) :
          LET out == _request(resp)
          IN  /\ response' = Some(resp.status)
              /\ IF out.raises = None
                 THEN LET turn == CollectTurn(all_fills, out.returns[1])
                      IN  /\ all_fills' = Kept(turn.all)
                          /\ cursor' = IF turn.stop THEN None ELSE turn.cursor
                          /\ pc' = IF turn.stop THEN "reduce" ELSE pc
                          /\ UNCHANGED <<raised, error>>
                 ELSE /\ raised' = out.raises
                      /\ pc' = OnPageError(out.raises[1], pc).pc
                      /\ error' = OnPageError(out.raises[1], pc).error
                      /\ UNCHANGED <<all_fills, cursor>>
    /\ calls' = [calls EXCEPT !.fills = Counted(@ + 1)]
    /\ outstanding' = outstanding - 1
    /\ UNCHANGED <<_client, inputs, clock, sent, all_settlements, cost_by_ticker, report>>

\* client.request itself fails on a page request: no response arrives
PageFails ==
    /\ pc \in {"settlements", "fills"}
    /\ outstanding > 0
    /\ outstanding' = outstanding - 1
    /\ response' = None
    /\ raised' = Some(TransportError)
    /\ pc' = OnPageError(TransportError, pc).pc
    /\ error' = OnPageError(TransportError, pc).error
    /\ calls' = [calls EXCEPT ![pc] = Counted(@ + 1)]
    /\ UNCHANGED <<_client, inputs, clock, sent, cursor, all_settlements, all_fills,
                   cost_by_ticker, report>>

DailyPnl ==
    /\ pc = "reduce"
    /\ endpoint = "daily_pnl"
    /\ cost_by_ticker' = calculate_cost_basis_by_ticker(all_fills)
    /\ report' = Some(DailyPnlReport(all_settlements, all_fills, period, request_min_ts, hostTz))
    /\ pc' = "done"
    /\ UNCHANGED <<_client, inputs, wire, cursor, calls, all_settlements, all_fills, response,
                   raised, error>>

\* get_cumulative_pnl awaits get_daily_pnl(period), which makes the two fetches
\* and the daily reduction, and accumulates over its series
CumulativePnl ==
    /\ pc = "reduce"
    /\ endpoint = "cumulative_pnl"
    /\ cost_by_ticker' = calculate_cost_basis_by_ticker(all_fills)
    /\ report' = Some(CumulativePnlReport(
                          DailyPnlReport(all_settlements, all_fills, period,
                                         request_min_ts, hostTz)))
    /\ pc' = "done"
    /\ UNCHANGED <<_client, inputs, wire, cursor, calls, all_settlements, all_fills, response,
                   raised, error>>

WinRate ==
    /\ pc = "reduce"
    /\ endpoint = "win_rate"
    /\ cost_by_ticker' = calculate_cost_basis_by_ticker(all_fills)
    /\ report' = Some(WinRateReport(all_settlements, all_fills, period, request_min_ts, hostTz))
    /\ pc' = "done"
    /\ UNCHANGED <<_client, inputs, wire, cursor, calls, all_settlements, all_fills, response,
                   raised, error>>

MarketBreakdown ==
    /\ pc = "reduce"
    /\ endpoint = "breakdown"
    /\ cost_by_ticker' = calculate_cost_basis_by_ticker(all_fills)
    /\ report' = Some(BreakdownReport(all_settlements, all_fills, period, request_min_ts, hostTz))
    /\ pc' = "done"
    /\ UNCHANGED <<_client, inputs, wire, cursor, calls, all_settlements, all_fills, response,
                   raised, error>>

\* the local variables of the running handler
Frame ==
    [endpoint |-> endpoint, period |-> period, pc |-> pc, cursor |-> cursor,
     calls |-> calls, all_settlements |-> all_settlements, all_fills |-> all_fills,
     cost_by_ticker |-> cost_by_ticker, sent |-> sent, outstanding |-> outstanding,
     response |-> response, raised |-> raised, report |-> report, error |-> error]

\* a slip of Locals: the collectors' lists kept in one place for all requests
LocalsWithSharedLists(f) ==
    [f EXCEPT !.all_settlements = all_settlements, !.all_fills = all_fills]

\* the local variables a handler finds when it is resumed: those of its own
\* frame, every list, map and counter of the handlers being a local variable
Locals(f) == f

\* The event loop runs another request: when the running handler has ended,
\* before it has started, or while it is suspended at the await of a page
\* request.  The frame of a handler that has ended is dropped.
Switch ==
    /\ parked # <<>>
    /\ \/ pc \in {"done", "failed"}
       \/ arrival = "during" /\ (pc = "client" \/ outstanding > 0)
    /\ parked' = IF pc \in {"done", "failed"} THEN <<>> ELSE <<Frame>>
    /\ LET f == Locals(parked[1])
       IN  /\ endpoint' = f.endpoint
           /\ period' = f.period
           /\ pc' = f.pc
           /\ cursor' = f.cursor
           /\ calls' = f.calls
           /\ all_settlements' = f.all_settlements
           /\ all_fills' = f.all_fills
           /\ cost_by_ticker' = f.cost_by_ticker
           /\ sent' = f.sent
           /\ outstanding' = f.outstanding
           /\ response' = f.response
           /\ raised' = f.raised
           /\ report' = f.report
           /\ error' = f.error
    /\ UNCHANGED <<env, _client, clock>>

Next ==
    \/ GetKalshiClient
    \/ SendPage
    \/ GetSettlementsPage
    \/ GetFillsPage
    \/ PageFails
    \/ DailyPnl
    \/ CumulativePnl
    \/ WinRate
    \/ MarketBreakdown
    \/ Switch

(***************************************************************************)
(* Inputs.                                                                 *)
(***************************************************************************)
Tickers == {"X", "Y"}
NowSet == {1000}
NowT == CHOOSE t \in NowSet : TRUE
OldT == NowT - 500         \* more than 7 days and less than 30 days before now
RecentT == NowT - 10       \* less than a day and more than an hour before now
now_1d_floor == NowT - Hours1d

\* (count, yes_price); no_price is the complement to a dollar
Trades == {<<10, 40>>, <<4, 45>>}

\* cost-basis specification: every shape of fill, the ticker-less one included
CostFills ==
    {Fill(t, sd, a, q[1], q[2], 100 - q[2], TsInt(OldT)) :
        t \in Tickers \cup {NoTicker}, sd \in {"yes", "no"}, a \in {"buy", "sell"},
        q \in Trades}

InitCost ==
    InitWith(SeqsUpTo({Settlement("X", 500, TsInt(RecentT))}, 1),
             SeqsUpTo(CostFills, MaxFills),
             {"honest"}, {Limit}, {0}, NowSet, {"all"})

SpecCost == InitCost /\ [][Next]_vars

\* reconciliation specification: settlements inside every window, fills
\* before the one-day floor
ReconSettlements == {Settlement(t, r, TsInt(RecentT)) : t \in Tickers, r \in {0, 500}}
ReconFills ==
    {Fill(t, "yes", a, q[1], q[2], 100 - q[2], TsInt(OldT)) :
        t \in {"X"}, a \in {"buy", "sell"}, q \in Trades}

Init ==
    InitWith(SeqsUpTo(ReconSettlements, MaxRecs),
             SeqsUpTo(ReconFills, MaxRecs),
             {"honest"}, {Limit}, {0}, NowSet, {"1d", "all"})

Spec == Init /\ [][Next]_vars

\* pagination specifications: short histories of distinguishable records, every
\* kind of exchange, pages of one record and more
PagedSettlements == {Settlement("X", 500, TsInt(RecentT)), Settlement("Y", 0, TsInt(RecentT))}
PagedFills ==
    {Fill("X", "yes", "buy", 10, 40, 60, TsInt(OldT)),
     Fill("X", "yes", "sell", 4, 45, 55, TsInt(RecentT))}

InitPage ==
    InitWith(SeqsUpTo(PagedSettlements, MaxPaged),
             SeqsUpTo(PagedFills, MaxPaged),
             {"honest", "trailing", "stale"}, 1..MaxPage, {0}, NowSet, {"all"})

SpecPage == InitPage /\ [][Next]_vars

\* The same with one record per listing kind, for the properties of whole runs.
\* The event loop resumes the handler when the page it awaits arrives, and runs
\* it to its next await or to its end; no page request has to fail.
InitFair ==
    InitWith(SeqsUpTo({Settlement("X", 500, TsInt(RecentT))}, MaxPage),
             SeqsUpTo({Fill("X", "yes", "buy", 10, 40, 60, TsInt(OldT))}, MaxPage),
             {"honest", "trailing", "stale"}, 1..MaxPage, {0}, NowSet, {"all"})

\* the steps of the handler itself; at most one of them is enabled in a state
HandlerStep ==
    \/ GetKalshiClient
    \/ SendPage
    \/ GetSettlementsPage
    \/ GetFillsPage
    \/ DailyPnl
    \/ CumulativePnl
    \/ WinRate
    \/ MarketBreakdown

FairSpecPage == InitFair /\ [][Next]_vars /\ WF_vars(HandlerStep)

\* window specification: settlements at, before and after the floors, as
\* integers and as texts, the epoch itself included
WindowTimes == {0, now_1d_floor, now_1d_floor - 1, RecentT}
WindowSettlements ==
    {Settlement("X", 500, ts) :
        ts \in {TsInt(v) : v \in WindowTimes} \cup {TsStr(v, 0) : v \in WindowTimes}}

InitWindow ==
    InitWith(SeqsUpTo(WindowSettlements, MaxRecs),
             SeqsUpTo({Fill("X", "yes", "buy", 10, 40, 60, TsInt(OldT))}, 1),
             {"honest"}, {Limit}, {0}, NowSet, {"1h", "1d", "7d", "30d", "all", "1w"})

SpecWindow == InitWindow /\ [][Next]_vars

\* malformed-timestamp specification: settlements whose timestamp is missing or
\* is a text that does not parse, next to well-formed ones inside and before
\* the floor, under periods that put a floor in force
MalformedSettlements ==
    {Settlement("X", 500, ts) : ts \in {TsNone, TsBad, TsInt(RecentT), TsInt(OldT)}}

InitMalformed ==
    InitWith(SeqsUpTo(MalformedSettlements, MaxRecs),
             SeqsUpTo({Fill("X", "yes", "buy", 10, 40, 60, TsInt(OldT))}, 1),
             {"honest"}, {Limit}, {0}, NowSet, {"1d", "30d"})

SpecMalformed == InitMalformed /\ [][Next]_vars


\* host specification: the same requests on hosts whose local time is UTC,
\* behind UTC and ahead of UTC (offsets in hours), under every period token
HostTzs == {0, 0 - 8, 2}
HostSettlements == {Settlement("X", 500, TsInt(v)) : v \in {RecentT, OldT}}

InitHost ==
    InitWith(SeqsUpTo(HostSettlements, 1),
             SeqsUpTo({Fill("X", "yes", "buy", 10, 40, 60, TsInt(OldT))}, 1),
             {"honest"}, {Limit}, HostTzs, NowSet, {"1h", "1d", "7d", "30d", "all", "1w"})

SpecHost == InitHost /\ [][Next]_vars

\* rate specification: settlements of X that are a win (+100), a loss (-400)
\* and neither (0) against the cost basis 400 of its one fill, and a win of Y
\* (+500), all inside every window
RatedSettlements ==
    {Settlement("X", 500, TsInt(RecentT)), Settlement("X", 0, TsInt(RecentT)),
     Settlement("X", 400, TsInt(RecentT)), Settlement("Y", 500, TsInt(RecentT))}

InitRate ==
    InitWith(SeqsUpTo(RatedSettlements, MaxRated),
             SeqsUpTo({Fill("X", "yes", "buy", 10, 40, 60, TsInt(OldT))}, 1),
             {"honest"}, {Limit}, {0}, NowSet, {"1d"})

SpecRate == InitRate /\ [][Next]_vars

\* key specification: key strings of every shape, accepted by the PEM parser
\* under none, one or several of their candidate texts
KeyStrings ==
    {KeyString("pem", ps) : ps \in SUBSET {"given"}}
        \cup {KeyString("flat", ps) : ps \in SUBSET {"reflowed"}}
        \cup {KeyString("bare", ps) : ps \in SUBSET {"rsa", "ec", "pkcs8"}}

InitKey ==
    InitEnv(SeqsUpTo({Settlement("X", 500, TsInt(RecentT))}, 1),
            SeqsUpTo({Fill("X", "yes", "buy", 10, 40, 60, TsInt(OldT))}, 1),
            {"honest"}, {Limit}, {0}, NowSet, {"all"}, KeyStrings, {"after"}, {endpoint})

SpecKey == InitKey /\ [][Next]_vars

\* concurrency specification: two requests in flight at once, for any two
\* endpoints, each fetching its pages one record at a time
ConcSettlements == {Settlement("X", 500, TsInt(RecentT)), Settlement("Y", 0, TsInt(RecentT))}

InitConc ==
    InitEnv(SeqsUpTo(ConcSettlements, MaxRecs),
            SeqsUpTo({Fill("X", "yes", "buy", 10, 40, 60, TsInt(OldT))}, 1),
            {"honest"}, {1}, {0}, NowSet, {"all"}, {GoodKey}, {"during"}, Endpoints)

SpecConc == InitConc /\ [][Next]_vars

\* shape specification: fills that lack count, the held-side price or the
\* other side's price, and settlements that lack revenue, next to whole ones
ShapedFill == Fill("X", "yes", "buy", 10, 40, 60, TsInt(RecentT))
ShapedFills ==
    {ShapedFill, Without(ShapedFill, "count"), Without(ShapedFill, "yes_price"),
     Without(ShapedFill, "no_price")}
ShapedSettlement == Settlement("X", 500, TsInt(RecentT))
ShapedSettlements == {ShapedSettlement, Without(ShapedSettlement, "revenue")}

InitShape ==
    InitWith(SeqsUpTo(ShapedSettlements, MaxRecs), SeqsUpTo(ShapedFills, MaxRecs),
             {"honest"}, {Limit}, {0}, NowSet, {"1d"})

SpecShape == InitShape /\ [][Next]_vars

\* date specification: one instant, an hour after a UTC midnight, written as
\* integer milliseconds and as ISO-8601 text at several UTC offsets, on hosts
\* in several time zones
EarlyT == NowT - 15
DateOffsets == {0, 0 - 8, 2}
DatedStamps == {TsInt(EarlyT)} \cup {TsStr(EarlyT + off, off) : off \in DateOffsets}
DatedSettlements == {Settlement("X", 500, ts) : ts \in DatedStamps}
DatedFills == {Fill("X", "yes", "buy", 10, 40, 60, ts) : ts \in DatedStamps}

InitDate ==
    InitWith(SeqsUpTo(DatedSettlements, MaxRecs), SeqsUpTo(DatedFills, 1),
             {"honest"}, {Limit}, HostTzs, NowSet, {"all"})

SpecDate == InitDate /\ [][Next]_vars

(***************************************************************************)
(* Reference definitions the properties are stated with.                   *)
(***************************************************************************)
Returned == pc \in {"reduce", "done"}
Ended == pc \in {"done", "failed"}
Rep == report[1]

\* count x held-side price, added for a buy and subtracted for a sell
SignedCost(f) ==
    LET held == IF f.side = "yes" THEN f.yes_price ELSE f.no_price
    IN  IF f.action = "buy" THEN f.count * held
        ELSE IF f.action = "sell" THEN 0 - f.count * held ELSE 0

\* the sum of the signed costs of the fills of instrument t
RefCost(fills, t) ==
    SumFn([i \in 1..Len(fills) |-> SignedCost(fills[i])],
          {i \in 1..Len(fills) : fills[i].ticker = t})

\* payout minus cost basis of settlement i of the collected list
RefPnl(i) == all_settlements[i].revenue - RefCost(all_fills, all_settlements[i].ticker)
RefPnlFn == [i \in 1..Len(all_settlements) |-> RefPnl(i)]
Wins(I) == Cardinality({i \in I : RefPnl(i) > 0})
Losses(I) == Cardinality({i \in I : RefPnl(i) < 0})

\* the settlements each handler lets through its period filter
DailyIncluded ==
    {i \in 1..Len(all_settlements) :
        ~DailySkipsSettlement(all_settlements[i], request_min_ts, hostTz)}
WinRateIncluded ==
    {i \in 1..Len(all_settlements) :
        ~WinRateSkipsSettlement(all_settlements[i], request_min_ts, hostTz)}
BreakdownIncluded ==
    {i \in 1..Len(all_settlements) :
        ~BreakdownSkipsSettlement(all_settlements[i], request_min_ts, hostTz)}
DateOf(i) == timestamp_to_date_str(all_settlements[i].settled_time, hostTz)[1]

IndexPermutations(n) == {q \in [1..n -> 1..n] : \A i, j \in 1..n : q[i] = q[j] => i = j}
FillTickers(fills) == {fills[i].ticker : i \in 1..Len(fills)} \ {NoTicker}

SumRows(rows, field) ==
    SumFn([k \in 1..Len(rows) |-> rows[k][field]], 1..Len(rows))

(***************************************************************************)
(* Properties.                                                             *)
(***************************************************************************)

\* C1: every settlement a report includes is counted with payout minus the cost
\* basis of its instrument, as a win iff that is > 0 and as a loss iff it is < 0,
\* in the daily series, the win-rate summary and the breakdown.
C1_RealizedPnlClassifies ==
    pc = "done" =>
        CASE endpoint = "win_rate" ->
                /\ Rep.wins = Wins(WinRateIncluded)
                /\ Rep.losses = Losses(WinRateIncluded)
                /\ Rep.net_pnl = SumFn(RefPnlFn, WinRateIncluded)
          [] endpoint = "daily_pnl" ->
                /\ \A i \in DailyIncluded :
                      \E k \in 1..Len(Rep.daily_pnl) : Rep.daily_pnl[k].date = DateOf(i)
                /\ \A k \in 1..Len(Rep.daily_pnl) :
                      LET I == {i \in DailyIncluded : DateOf(i) = Rep.daily_pnl[k].date}
                      IN  /\ Rep.daily_pnl[k].realized_pnl = SumFn(RefPnlFn, I)
                          /\ Rep.daily_pnl[k].wins = Wins(I)
                          /\ Rep.daily_pnl[k].losses = Losses(I)
          [] endpoint = "breakdown" ->
                /\ \A i \in BreakdownIncluded :
                      \E k \in 1..Len(Rep.breakdown) :
                          Rep.breakdown[k].ticker = all_settlements[i].ticker
                /\ \A k \in 1..Len(Rep.breakdown) :
                      LET I == {i \in BreakdownIncluded :
                                   all_settlements[i].ticker = Rep.breakdown[k].ticker}
                      IN  /\ Rep.breakdown[k].pnl = SumFn(RefPnlFn, I)
                          /\ Rep.breakdown[k].wins = Wins(I)
                          /\ Rep.breakdown[k].losses = Losses(I)
          [] OTHER ->
                SumRows(Rep.cumulative_pnl, "daily_pnl") = SumFn(RefPnlFn, DailyIncluded)

\* a positive payout that is a loss once the cost basis is subtracted
C1_Witness ==
    /\ pc = "done"
    /\ endpoint = "win_rate"
    /\ Rep.losses >= 1
    /\ \E i \in WinRateIncluded : all_settlements[i].revenue > 0 /\ RefPnl(i) < 0

\* C2: under every period the fills collector fetches the whole fill history (no
\* minimum timestamp), so the cost basis and the realized P/L of an in-window
\* settlement count the fills older than the floor, whatever the period.
C2_CostBasisFromFullHistory ==
    /\ Returned => all_fills = srvFills
    /\ pc = "done" =>
          /\ \A t \in Tickers : Get0(cost_by_ticker, t) = RefCost(srvFills, t)
          /\ LET full == [i \in 1..Len(all_settlements) |->
                            all_settlements[i].revenue
                                - RefCost(srvFills, all_settlements[i].ticker)]
             IN  CASE endpoint = "win_rate" ->
                        Rep.net_pnl = SumFn(full, WinRateIncluded)
                   [] endpoint = "daily_pnl" ->
                        SumRows(Rep.daily_pnl, "realized_pnl") = SumFn(full, DailyIncluded)
                   [] endpoint = "breakdown" ->
                        SumRows(Rep.breakdown, "pnl") = SumFn(full, BreakdownIncluded)
                   [] OTHER ->
                        SumRows(Rep.cumulative_pnl, "daily_pnl") = SumFn(full, DailyIncluded)

\* a one-day report whose settlement's cost was paid before the floor
C2_Witness ==
    /\ pc = "done"
    /\ period = "1d"
    /\ endpoint = "win_rate"
    /\ Len(all_settlements) = 1
    /\ WinRateIncluded = {1}
    /\ \E j \in 1..Len(srvFills) :
          /\ srvFills[j].ticker = all_settlements[1].ticker
          /\ srvFills[j].action = "buy"
          /\ srvFills[j].created_time.v < request_min_ts[1]
    /\ Rep.net_pnl < all_settlements[1].revenue

\* C3: calculate_cost_basis_by_ticker gives each instrument the sum over its
\* fills of count x held-side price, plus for a buy and minus for a sell,
\* whatever the side.
C3_CostBasisIsSignedSum ==
    pc = "done" => \A t \in Tickers : Get0(cost_by_ticker, t) = RefCost(all_fills, t)

\* the spec's scenario: buy 10 @ 40, sell 4 @ 45 gives 220
C3_Witness ==
    /\ pc = "done"
    /\ Len(all_fills) = 2
    /\ all_fills[1].ticker = "X" /\ all_fills[2].ticker = "X"
    /\ all_fills[1].action = "buy" /\ all_fills[1].count = 10 /\ FillPrice(all_fills[1]) = 40
    /\ all_fills[2].action = "sell" /\ all_fills[2].count = 4 /\ FillPrice(all_fills[2]) = 45
    /\ cost_by_ticker["X"] = 220

\* C4: calculate_cost_basis_by_ticker gives the same map for every permutation
\* of the fill list.
C4_CostBasisPermutationInvariant ==
    pc = "done" =>
        \A q \in IndexPermutations(Len(all_fills)) :
            calculate_cost_basis_by_ticker([i \in 1..Len(all_fills) |-> all_fills[q[i]]])
                = cost_by_ticker

\* a buy and a sell of one instrument, which a permutation swaps
C4_Witness ==
    /\ pc = "done"
    /\ Len(all_fills) = 2
    /\ all_fills[1].ticker = all_fills[2].ticker
    /\ all_fills[1].ticker # NoTicker
    /\ all_fills[1].action = "sell" /\ all_fills[2].action = "buy"
    /\ cost_by_ticker[all_fills[1].ticker] # 0

\* C5: the map has a key exactly for the instruments that occur in a fill, and a
\* settlement of an instrument without fills is reconciled with cost basis 0:
\* its realized P/L is its payout.
C5_NoFillsMeansZeroCost ==
    pc = "done" =>
        /\ DOMAIN cost_by_ticker = FillTickers(all_fills)
        /\ (\A i \in 1..Len(all_settlements) :
                all_settlements[i].ticker \notin FillTickers(all_fills))
            => LET paid == SumFn([i \in 1..Len(all_settlements) |->
                                     all_settlements[i].revenue],
                                 1..Len(all_settlements))
               IN  CASE endpoint = "win_rate" -> Rep.net_pnl = paid
                     [] endpoint = "daily_pnl" ->
                          SumRows(Rep.daily_pnl, "realized_pnl") = paid
                     [] endpoint = "breakdown" -> SumRows(Rep.breakdown, "pnl") = paid
                     [] OTHER -> SumRows(Rep.cumulative_pnl, "daily_pnl") = paid

\* a settlement of X reconciled against fills of other instruments only
C5_Witness ==
    /\ pc = "done"
    /\ endpoint = "breakdown"
    /\ Len(all_settlements) = 1
    /\ FillTickers(all_fills) = {"Y"}
    /\ Len(Rep.breakdown) = 1
    /\ Rep.breakdown[1].ticker = "X"
    /\ Rep.breakdown[1].pnl = all_settlements[1].revenue

\* the number of non-empty pages the exchange holds of a listing
NPages(data) ==
    LET size == Min(srvPage, Limit) IN (Len(data) + size - 1) \div size

\* an exchange that serves each of its pages once, in order
ChainExchange == srvKind \in {"honest", "trailing"}

\* C6: against an exchange holding N non-empty pages a collector makes at most
\* N+1 page requests, and is still in its loop only while it has made at most N;
\* also when a cursor comes with the last page and with the empty page after it.
C6_ReturnsWithinNPlusOne ==
    ChainExchange =>
        /\ calls.settlements <= NPages(srvSettlements) + 1
        /\ calls.fills <= NPages(srvFills) + 1
        /\ pc = "settlements" => calls.settlements <= NPages(srvSettlements)
        /\ pc = "fills" => calls.fills <= NPages(srvFills)

\* two pages, a cursor with each, and the empty page that ends the loop
C6_Witness ==
    /\ srvKind = "trailing"
    /\ NPages(srvSettlements) >= 2
    /\ pc = "fills"
    /\ raised = None
    /\ calls.settlements = NPages(srvSettlements) + 1

\* C7: whatever the exchange answers, the collector eventually stops requesting
\* pages: the request ends, with a report or with an error.
C7_CollectorAlwaysReturns == <>Ended

\* C8: against an exchange that ends its chain of pages with an absent cursor,
\* each collector returns the exchange's records, all of them, once each, in the
\* order served, the last page's included.
C8_CollectsCompleteOrderedSet ==
    srvKind = "honest" =>
        /\ pc \in {"fills", "reduce", "done"} => all_settlements = srvSettlements
        /\ Returned => all_fills = srvFills

\* three pages of one record each, not all the same record
C8_Witness ==
    /\ srvKind = "honest"
    /\ pc = "done"
    /\ srvPage = 1
    /\ Len(srvSettlements) >= 3
    /\ srvSettlements[1] # srvSettlements[Len(srvSettlements)]
    /\ Len(srvFills) >= 2
    /\ srvFills[1] # srvFills[2]
    /\ calls.settlements = Len(srvSettlements)

\* C9: a failed page request ends the request with that same error and without
\* a report; a report is only ever returned when no page request failed.
C9_PageFailureFailsRequest ==
    /\ raised # None => pc = "failed" /\ error = raised /\ report = None
    /\ report # None => raised = None /\ error = None

\* a failure in the middle of the fills listing, after pages of both listings
\* were received
C9_Witness ==
    /\ pc = "failed"
    /\ raised = Some(HTTPStatusError(500))
    /\ error = Some(HTTPStatusError(500))
    /\ all_settlements # <<>>
    /\ all_fills # <<>>
    /\ calls.fills >= 2

\* a settlement's timestamp normalized to the epoch count is at or after the floor
\* (or there is no floor and the timestamp parses)
AtOrAfterFloor(i) ==
    LET ms == parse_timestamp_to_ms(all_settlements[i].settled_time, hostTz)
    IN  ms # None /\ (request_min_ts = None \/ ms[1] >= request_min_ts[1])

InWindow == {i \in 1..Len(all_settlements) : AtOrAfterFloor(i)}

\* C10: a settlement contributes to the daily series, the win-rate summary and
\* the breakdown if and only if its normalized timestamp is >= the floor (every
\* parseable one when there is no floor), the timestamp 0 included.
C10_ContributesIffAtOrAfterFloor ==
    pc = "done" =>
        CASE endpoint = "win_rate" -> Rep.net_pnl = SumFn(RefPnlFn, InWindow)
          [] endpoint = "daily_pnl" ->
                SumRows(Rep.daily_pnl, "settlement_count") = Cardinality(InWindow)
          [] endpoint = "breakdown" ->
                SumRows(Rep.breakdown, "count") = Cardinality(InWindow)
          [] OTHER -> TRUE

\* a settlement whose timestamp is present and parses
WellFormed(s) == parse_timestamp_to_ms(s.settled_time, hostTz) # None

\* C11: in every report computed with a floor in force (daily series, win-rate
\* summary, breakdown) a settlement whose timestamp is missing or unparseable is
\* excluded: the report is the one computed without it; and such a settlement
\* never makes the request fail.
C11_MalformedTimestampExcluded ==
    /\ (pc = "done" /\ request_min_ts # None) =>
          LET kept == SelectSeq(all_settlements, WellFormed)
          IN  CASE endpoint = "daily_pnl" ->
                     Rep = DailyPnlReport(kept, all_fills, period, request_min_ts, hostTz)
                [] endpoint = "win_rate" ->
                     Rep = WinRateReport(kept, all_fills, period, request_min_ts, hostTz)
                [] endpoint = "breakdown" ->
                     Rep = BreakdownReport(kept, all_fills, period, request_min_ts, hostTz)
                [] OTHER ->
                     Rep = CumulativePnlReport(
                               DailyPnlReport(kept, all_fills, period, request_min_ts, hostTz))
    /\ pc = "failed" => raised # None

\* the floor stated for a period token: the current UTC instant minus the
\* token's span, none for "all" and for every other token
StatedFloor(p) ==
    CASE p = "1h" -> Some(now - Hours1h)
      [] p = "1d" -> Some(now - Hours1d)
      [] p = "7d" -> Some(now - Hours7d)
      [] p = "30d" -> Some(now - Hours30d)
      [] OTHER -> None

\* the report a handler computes from the collected lists under period p
ReportUnder(p) ==
    CASE endpoint = "daily_pnl" ->
            DailyPnlReport(all_settlements, all_fills, p, PeriodFloor(p, now, hostTz), hostTz)
      [] endpoint = "win_rate" ->
            WinRateReport(all_settlements, all_fills, p, PeriodFloor(p, now, hostTz), hostTz)
      [] endpoint = "breakdown" ->
            BreakdownReport(all_settlements, all_fills, p, PeriodFloor(p, now, hostTz), hostTz)
      [] OTHER ->
            CumulativePnlReport(
                DailyPnlReport(all_settlements, all_fills, p, PeriodFloor(p, now, hostTz), hostTz))

\* C12: the floor of a request is the current UTC instant minus one hour, one
\* day, seven days, thirty days for "1h", "1d", "7d", "30d", and there is no
\* floor for "all" and for an unknown token, whose report is the one of "all"
\* (up to the token echoed in it).
C12_FloorIsUtcNowMinusSpan ==
    pc = "done" =>
        /\ request_min_ts = StatedFloor(period)
        /\ period \notin {"1h", "1d", "7d", "30d", "all"} =>
              [Rep EXCEPT !.period = "all"] = ReportUnder("all")

\* C13: the daily series holds at most one bucket per calendar date and its
\* dates are strictly ascending, in whatever order the settlements and the
\* fills were delivered.
C13_DailySeriesStrictlyAscending ==
    (pc = "done" /\ endpoint = "daily_pnl") =>
        \A i, j \in 1..Len(Rep.daily_pnl) :
            i < j => Rep.daily_pnl[i].date < Rep.daily_pnl[j].date

\* two settlements delivered latest first, and a fill of an earlier day still:
\* the buckets were created in descending order of date
C13_Witness ==
    /\ pc = "done"
    /\ endpoint = "daily_pnl"
    /\ Len(all_settlements) = 2
    /\ DailyIncluded = {1, 2}
    /\ DateOf(1) > DateOf(2)
    /\ Len(all_fills) = 1
    /\ Len(Rep.daily_pnl) = 3

\* the daily series of the request's collected lists
DailySeries ==
    DailyPnlReport(all_settlements, all_fills, period, request_min_ts, hostTz).daily_pnl

\* C14: the cumulative series has one entry per daily bucket, in the same
\* order of dates; entry i carries the realized P/L of bucket i as daily_pnl;
\* cumulative_pnl is daily_pnl for the first entry and the previous entry's
\* cumulative_pnl plus daily_pnl for every later one.
C14_CumulativeIsRunningSum ==
    (pc = "done" /\ endpoint = "cumulative_pnl") =>
        LET c == Rep.cumulative_pnl
        IN  /\ Len(c) = Len(DailySeries)
            /\ \A i \in 1..Len(c) :
                  /\ c[i].date = DailySeries[i].date
                  /\ c[i].daily_pnl = DailySeries[i].realized_pnl
                  /\ c[i].cumulative_pnl =
                        IF i = 1 THEN c[i].daily_pnl
                        ELSE c[i - 1].cumulative_pnl + c[i].daily_pnl

\* two days with settlements: the second entry adds to what the first carried
C14_Witness ==
    /\ pc = "done"
    /\ endpoint = "cumulative_pnl"
    /\ Len(Rep.cumulative_pnl) >= 2
    /\ \E i \in 2..Len(Rep.cumulative_pnl) :
          /\ Rep.cumulative_pnl[i].daily_pnl # 0
          /\ Rep.cumulative_pnl[i - 1].cumulative_pnl # 0
          /\ Rep.cumulative_pnl[i].cumulative_pnl
                = Rep.cumulative_pnl[i - 1].cumulative_pnl + Rep.cumulative_pnl[i].daily_pnl

\* r, in hundredths of a percent, is wins / total x 100 rounded to two
\* decimals: 0 when total is 0, and otherwise no further than half a hundredth
\* from the quotient
IsRoundedPct(r, wins, total) ==
    IF total = 0 THEN r = 0 ELSE 2 * Abs(r * total - wins * 10000) <= total

\* C15: in the win-rate summary and in every row of the breakdown win_rate is
\* wins / (wins + losses) x 100 rounded to two decimals, and 0 when
\* wins + losses = 0; in the summary total = wins + losses.
C15_WinRateIsRoundedPercentage ==
    pc = "done" =>
        /\ endpoint = "win_rate" =>
              /\ Rep.total = Rep.wins + Rep.losses
              /\ IsRoundedPct(Rep.win_rate, Rep.wins, Rep.wins + Rep.losses)
        /\ endpoint = "breakdown" =>
              \A k \in 1..Len(Rep.breakdown) :
                  IsRoundedPct(Rep.breakdown[k].win_rate, Rep.breakdown[k].wins,
                               Rep.breakdown[k].wins + Rep.breakdown[k].losses)

\* two wins and a loss: 66.67 per cent, which is not the quotient cut off
C15_Witness ==
    /\ pc = "done"
    /\ endpoint = "win_rate"
    /\ Rep.wins = 2
    /\ Rep.losses = 1
    /\ Rep.total = 3
    /\ Rep.win_rate = 6667

\* the sum of the P/L of the wins, and of the absolute P/L of the losses, among
\* the settlements of I
WinAmount(I) == SumFn(RefPnlFn, {i \in I : RefPnl(i) > 0})
LossAmount(I) == 0 - SumFn(RefPnlFn, {i \in I : RefPnl(i) < 0})

\* C16: get_win_rate never divides by zero and returns a summary: avg_win is 0
\* when there is no win and the total win amount over the wins otherwise;
\* avg_loss is 0 when there is no loss and the total absolute loss amount over
\* the losses otherwise; so also when no settlement is in the window.
C16_AveragesGuardedAgainstZero ==
    (pc = "done" /\ endpoint = "win_rate") =>
        /\ Rep.avg_win.den # 0
        /\ Rep.avg_loss.den # 0
        /\ Rep.avg_win.num * Rep.wins = WinAmount(WinRateIncluded) * Rep.avg_win.den
        /\ Rep.avg_loss.num * Rep.losses = LossAmount(WinRateIncluded) * Rep.avg_loss.den
        /\ Rep.wins = 0 => Rep.avg_win.num = 0
        /\ Rep.losses = 0 => Rep.avg_loss.num = 0

\* a summary of losses only: avg_win is 0 and avg_loss is the mean loss
C16_Witness ==
    /\ pc = "done"
    /\ endpoint = "win_rate"
    /\ Rep.wins = 0
    /\ Rep.losses = 2
    /\ Rep.avg_win = Ratio(0, 1)
    /\ Rep.avg_loss = Ratio(800, 2)

\* C17: the rows of the breakdown are in descending order of |pnl| (a loss of
\* 500 before a gain of 300), and every instrument with a settlement in the
\* window has exactly one row.
C17_BreakdownSortedByAbsPnl ==
    (pc = "done" /\ endpoint = "breakdown") =>
        LET r == Rep.breakdown
        IN  /\ \A k \in 1..(Len(r) - 1) : Abs(r[k].pnl) >= Abs(r[k + 1].pnl)
            /\ \A i \in BreakdownIncluded :
                  Cardinality({k \in 1..Len(r) : r[k].ticker = all_settlements[i].ticker}) = 1
            /\ \A k \in 1..Len(r) :
                  \E i \in BreakdownIncluded : all_settlements[i].ticker = r[k].ticker

\* a loss first and a smaller gain after it, the gain delivered first
C17_Witness ==
    /\ pc = "done"
    /\ endpoint = "breakdown"
    /\ Len(Rep.breakdown) = 2
    /\ Rep.breakdown[1].pnl < 0
    /\ Rep.breakdown[2].pnl > 0
    /\ Abs(Rep.breakdown[1].pnl) > Rep.breakdown[2].pnl
    /\ all_settlements[1].ticker = Rep.breakdown[2].ticker

\* a quotient that is a whole number
IsWhole(q) == q.den # 0 /\ q.num % q.den = 0

\* C18: every monetary figure of every report is a whole number of cents when
\* every count, price and payout is one: realized_pnl and volume of the daily
\* series, daily_pnl and cumulative_pnl of the cumulative series, pnl of the
\* breakdown, net_pnl, avg_win and avg_loss of the win-rate summary.
C18_MoneyIsWholeCents ==
    pc = "done" =>
        CASE endpoint = "daily_pnl" ->
                \A k \in 1..Len(Rep.daily_pnl) :
                    Rep.daily_pnl[k].realized_pnl \in Int /\ Rep.daily_pnl[k].volume \in Int
          [] endpoint = "cumulative_pnl" ->
                \A k \in 1..Len(Rep.cumulative_pnl) :
                    /\ Rep.cumulative_pnl[k].daily_pnl \in Int
                    /\ Rep.cumulative_pnl[k].cumulative_pnl \in Int
          [] endpoint = "breakdown" ->
                \A k \in 1..Len(Rep.breakdown) : Rep.breakdown[k].pnl \in Int
          [] OTHER ->
                /\ Rep.net_pnl \in Int
                /\ IsWhole(Rep.avg_win)
                /\ IsWhole(Rep.avg_loss)

\* the report the request's handler computes from lists ss and fs
ReportOf(ss, fs) ==
    CASE endpoint = "daily_pnl" -> DailyPnlReport(ss, fs, period, request_min_ts, hostTz)
      [] endpoint = "cumulative_pnl" ->
            CumulativePnlReport(DailyPnlReport(ss, fs, period, request_min_ts, hostTz))
      [] endpoint = "win_rate" -> WinRateReport(ss, fs, period, request_min_ts, hostTz)
      [] OTHER -> BreakdownReport(ss, fs, period, request_min_ts, hostTz)

Permuted(seq, q) == [i \in 1..Len(seq) |-> seq[q[i]]]

\* C19: for given fills, settlements and period the daily series, the win-rate
\* summary and the breakdown, the order of its rows included, are the same for
\* every order in which the exchange delivers the records.
C19_ReportsIndependentOfDeliveryOrder ==
    pc = "done" =>
        \A q \in IndexPermutations(Len(all_settlements)) :
            \A r \in IndexPermutations(Len(all_fills)) :
                ReportOf(Permuted(all_settlements, q), Permuted(all_fills, r)) = Rep

\* C20: _request hands its caller the decoded body only for a 2xx response; for
\* every other response it raises an error that carries the response's status
\* code and hands over nothing, for 404 as for any other status.
C20_RequestRaisesOnNon2xx ==
    response # None =>
        IF Is2xx(response[1]) THEN raised = None
        ELSE /\ raised = Some(HTTPStatusError(response[1]))
             /\ pc = "failed"
             /\ report = None

\* a 404 in the middle of the fills listing ends the request with an error
\* that carries 404
C20_Witness ==
    /\ response = Some(404)
    /\ raised = Some(HTTPStatusError(404))
    /\ error = raised
    /\ pc = "failed"
    /\ all_settlements # <<>>
    /\ all_fills # <<>>

\* the candidate texts of a key string in the order they are stated to be tried
StatedOrder == <<"given", "reflowed", "rsa", "ec", "pkcs8">>

\* the first candidate of the stated order that parses, if any
FirstParsing(k) ==
    LET idx == {i \in 1..Len(StatedOrder) : StatedOrder[i] \in k.parses}
    IN  IF idx = {} THEN None
        ELSE Some(StatedOrder[CHOOSE i \in idx : \A j \in idx : i <= j])

\* C21: if the key string parses under none of its candidate texts, the
\* construction of the client fails: the request ends with the error, no client
\* instance is retained and no request is sent to the exchange; if a candidate
\* parses, the client's key is the first of them in the stated order.
C21_KeyLoadFailureIsFatal ==
    pc # "client" =>
        IF FirstParsing(key_string) = None
        THEN /\ _client = None
             /\ pc = "failed"
             /\ error = Some(ValueError)
             /\ calls = [settlements |-> 0, fills |-> 0]
             /\ response = None
             /\ report = None
        ELSE /\ _client # None
             /\ _client[1].private_key = PrivateKey(FirstParsing(key_string)[1])

\* a bare body that parses between none of the three pairs of headers
C21_Witness ==
    /\ key_string = KeyString("bare", {})
    /\ pc = "failed"
    /\ error = Some(ValueError)
    /\ _client = None

\* C22: a request that runs interleaved with another one returns the report it
\* returns when it runs alone (against an exchange that serves its listing once,
\* the report of the exchange's whole history); the client instance is made from
\* the configured key at most once and is never changed afterwards.
C22_InterleavedRequestsAreIndependent ==
    /\ [](pc = "done" => Rep = ReportOf(srvSettlements, srvFills))
    /\ [](_client # None => _client = KalshiClient(key_string))
    /\ [][_client # None => _client' = _client]_vars

\* a request that has returned its report while the other one, of another
\* endpoint, is between two pages of its fills listing
C22_Witness ==
    /\ pc = "done"
    /\ parked # <<>>
    /\ parked[1].pc = "fills"
    /\ parked[1].endpoint # endpoint
    /\ parked[1].all_settlements = srvSettlements
    /\ Len(srvSettlements) = 2
    /\ Rep = ReportOf(srvSettlements, srvFills)

\* a record with each of the numeric fields ks it lacks set to 0
Filled(rec, ks) ==
    [x \in DOMAIN rec \cup ks |-> IF x \in DOMAIN rec THEN rec[x] ELSE 0]
FilledAll(seq, ks) == [i \in 1..Len(seq) |-> Filled(seq[i], ks)]

Lacking(seq, k) == {i \in 1..Len(seq) : k \notin DOMAIN seq[i]}

\* C23: a record that lacks a numeric field is processed as if the field were
\* 0 and fails no report: the report is the one of the same records with count,
\* yes_price, no_price and revenue set to 0 where they are missing, and a request
\* fails only through an error of a page request.
C23_MissingNumberCountsAsZero ==
    /\ pc = "done" =>
          Rep = ReportOf(FilledAll(all_settlements, {"revenue"}),
                         FilledAll(all_fills, {"count", "yes_price", "no_price"}))
    /\ pc = "failed" => raised # None

\* a daily series over a fill without count, a fill without its held-side price
\* and a settlement without revenue: no volume, and a realized P/L of 0
C23_Witness ==
    /\ pc = "done"
    /\ endpoint = "daily_pnl"
    /\ Len(all_fills) = 2
    /\ Lacking(all_fills, "count") = {1}
    /\ Lacking(all_fills, "yes_price") = {2}
    /\ Len(all_settlements) = 1
    /\ Lacking(all_settlements, "revenue") = {1}
    /\ Len(Rep.daily_pnl) = 1
    /\ Rep.daily_pnl[1].volume = 0
    /\ Rep.daily_pnl[1].trade_count = 2
    /\ Rep.daily_pnl[1].realized_pnl = 0
    /\ Rep.daily_pnl[1].settlement_count = 1

\* the settlements of I whose realized P/L is exactly 0
Zeros(I) == Cardinality({i \in I : RefPnl(i) = 0})

\* C24: a settlement whose realized P/L is 0 is counted as a settlement and as
\* neither a win nor a loss: in every daily bucket settlement_count is wins +
\* losses + the zero-P/L settlements of the day, and in every breakdown row
\* count is wins + losses + the zero-P/L settlements of the instrument.
C24_ZeroPnlCountedNotClassified ==
    pc = "done" =>
        /\ endpoint = "daily_pnl" =>
              \A k \in 1..Len(Rep.daily_pnl) :
                  LET b == Rep.daily_pnl[k]
                      I == {i \in DailyIncluded : DateOf(i) = b.date}
                  IN  /\ b.settlement_count = b.wins + b.losses + Zeros(I)
                      /\ b.settlement_count = Cardinality(I)
        /\ endpoint = "breakdown" =>
              \A k \in 1..Len(Rep.breakdown) :
                  LET r == Rep.breakdown[k]
                      I == {i \in BreakdownIncluded : all_settlements[i].ticker = r.ticker}
                  IN  /\ r.count = r.wins + r.losses + Zeros(I)
                      /\ r.count = Cardinality(I)

\* a day with a win, a loss and a settlement that pays exactly its cost basis
C24_Witness ==
    /\ pc = "done"
    /\ endpoint = "daily_pnl"
    /\ Len(Rep.daily_pnl) >= 1
    /\ \E k \in 1..Len(Rep.daily_pnl) :
          /\ Rep.daily_pnl[k].settlement_count = 3
          /\ Rep.daily_pnl[k].wins = 1
          /\ Rep.daily_pnl[k].losses = 1
    /\ \E i \in 1..Len(all_settlements) :
          all_settlements[i].revenue > 0 /\ RefPnl(i) = 0

\* the UTC calendar date of the instant a timestamp denotes
UtcDate(ts) == parse_timestamp_to_ms(ts, 0)[1] \div DayLen
DailyIncludedFills ==
    {j \in 1..Len(all_fills) : ~DailySkipsFill(all_fills[j], request_min_ts, hostTz)}

\* C25: every record is placed in the daily bucket of the UTC calendar date of
\* its instant, whether the instant comes as integer milliseconds or as text at
\* any UTC offset and whatever the host's time zone: a bucket's realized P/L is
\* that of the settlements of its UTC date, its trade count that of the fills
\* of its UTC date, and every included record has the bucket of its UTC date.
C25_BucketIsUtcDate ==
    (pc = "done" /\ endpoint = "daily_pnl") =>
        LET rows == Rep.daily_pnl
            dates == {rows[k].date : k \in 1..Len(rows)}
        IN  /\ \A i \in DailyIncluded : UtcDate(all_settlements[i].settled_time) \in dates
            /\ \A j \in DailyIncludedFills : UtcDate(all_fills[j].created_time) \in dates
            /\ \A k \in 1..Len(rows) :
                  /\ rows[k].realized_pnl =
                        SumFn(RefPnlFn, {i \in DailyIncluded :
                            UtcDate(all_settlements[i].settled_time) = rows[k].date})
                  /\ rows[k].trade_count =
                        Cardinality({j \in DailyIncludedFills :
                            UtcDate(all_fills[j].created_time) = rows[k].date})

\* the instruments of the settlements of I
TickersOf(I) == {all_settlements[i].ticker : i \in I}
RevenueFn == [i \in 1..Len(all_settlements) |-> all_settlements[i].revenue]
CostFn == [t \in TickersOf(1..Len(all_settlements)) |-> RefCost(all_fills, t)]

\* C29: in the daily series the cost basis of an instrument is subtracted at
\* most once, however many settlements of the instrument fall in the window:
\* the realized P/L of the whole series is the payout of the included
\* settlements minus the cost basis of each settled instrument, taken once.
C29_CostBasisSubtractedOnce ==
    (pc = "done" /\ endpoint = "daily_pnl") =>
        SumRows(Rep.daily_pnl, "realized_pnl") =
            SumFn(RevenueFn, DailyIncluded) - SumFn(CostFn, TickersOf(DailyIncluded))

\* the last cumulative_pnl of a cumulative series, 0 for the empty series
LastCumulative(rows) == IF rows = <<>> THEN 0 ELSE rows[Len(rows)].cumulative_pnl

\* C30: for the same fills, settlements and period the reports agree: net_pnl
\* of the win-rate summary is the sum of realized_pnl over the daily series,
\* which is the last cumulative_pnl, and the sum of pnl over the breakdown
\* rows; the summary's wins and losses are the sums of the wins and losses of
\* the daily buckets and of the breakdown rows.
C30_ReportsAgree ==
    pc = "done" =>
        LET d == DailyPnlReport(all_settlements, all_fills, period, request_min_ts, hostTz)
            c == CumulativePnlReport(d)
            w == WinRateReport(all_settlements, all_fills, period, request_min_ts, hostTz)
            b == BreakdownReport(all_settlements, all_fills, period, request_min_ts, hostTz)
        IN  /\ Rep \in {d, c, w, b}
            /\ w.net_pnl = SumRows(d.daily_pnl, "realized_pnl")
            /\ w.net_pnl = LastCumulative(c.cumulative_pnl)
            /\ w.net_pnl = SumRows(b.breakdown, "pnl")
            /\ w.wins = SumRows(d.daily_pnl, "wins")
            /\ w.wins = SumRows(b.breakdown, "wins")
            /\ w.losses = SumRows(d.daily_pnl, "losses")
            /\ w.losses = SumRows(b.breakdown, "losses")

\* a step in which the running handler hands a request to the HTTP client
Sends == pc \in {"settlements", "fills"} /\ outstanding = 0 /\ outstanding' = 1

HeaderNames ==
    {"KALSHI-ACCESS-KEY", "KALSHI-ACCESS-SIGNATURE", "KALSHI-ACCESS-TIMESTAMP", "Content-Type"}

\* the headers of req are the four headers, the signature being that of the
\* timestamp in the header, the upper-cased method and the prefixed path
WellSigned(req) ==
    LET h == req.headers
    IN  /\ DOMAIN h = HeaderNames
        /\ h["KALSHI-ACCESS-KEY"] = _client[1].api_key_id
        /\ h["Content-Type"] = "application/json"
        /\ h["KALSHI-ACCESS-SIGNATURE"] =
              [signer |-> _client[1].private_key,
               message |-> h["KALSHI-ACCESS-TIMESTAMP"] \o "GET" \o "/trade-api/v2" \o req.path]

\* C26: every HTTP request carries exactly four headers (key id, signature,
\* millisecond timestamp, content type); the signature is over the timestamp
\* in the header, the upper-cased method and "/trade-api/v2" + path; and the
\* timestamp, with the signature over it, is made during the call that sends
\* the request: it is the reading of the clock at that call, never the one an
\* earlier request was stamped with when the clock has moved on.
C26_HeadersMadePerRequest ==
    /\ [](sent # None => WellSigned(sent[1]))
    /\ [][Sends => /\ sent' # None
                   /\ WellSigned(sent'[1])
                   /\ clock' >= clock
                   /\ sent'[1].headers["KALSHI-ACCESS-TIMESTAMP"] = TimestampText(clock')
                   /\ (sent # None /\ clock' > clock) =>
                         /\ sent'[1].headers["KALSHI-ACCESS-TIMESTAMP"] #
                                sent[1].headers["KALSHI-ACCESS-TIMESTAMP"]
                         /\ sent'[1].headers["KALSHI-ACCESS-SIGNATURE"] #
                                sent[1].headers["KALSHI-ACCESS-SIGNATURE"]]_vars

\* a second page request is on the wire, stamped a millisecond after the first
C26_Witness ==
    /\ outstanding = 1
    /\ sent # None
    /\ RequestCursor(sent[1]) # None
    /\ calls.settlements = 1
    /\ sent[1].headers["KALSHI-ACCESS-TIMESTAMP"] = "1"
    /\ sent[1].headers["KALSHI-ACCESS-SIGNATURE"].message = "1GET/trade-api/v2/portfolio/settlements"

\* a step of the running handler itself (the event loop takes over only from a
\* handler that has ended, has not started or is suspended)
Runs == pc \in {"settlements", "fills", "reduce"}

\* C27: within one aggregation request the network calls form a strictly
\* sequential chain: at most one page request is outstanding, a request is
\* sent only when no other is outstanding, the fills are requested only after
\* the settlements have been fetched; and the cost basis and the report are
\* computed only after both fetches have completed without an error.
C27_FetchesSequentialThenReduce ==
    /\ [](outstanding \in {0, 1})
    /\ []((sent # None /\ sent[1].path = "/portfolio/fills") =>
              (pc # "settlements" /\ calls.settlements >= 1))
    /\ [](pc \in {"reduce", "done"} =>
              /\ outstanding = 0
              /\ raised = None /\ error = None
              /\ response # None /\ Is2xx(response[1])
              /\ calls.settlements >= 1 /\ calls.fills >= 1
              /\ sent # None /\ sent[1].path = "/portfolio/fills")
    /\ [][(Runs /\ outstanding' > outstanding) => outstanding = 0]_vars
    /\ [][(Runs /\ (cost_by_ticker' # cost_by_ticker \/ report' # report)) =>
              (pc = "reduce" /\ outstanding = 0 /\ raised = None)]_vars

\* both collections took several pages, one request after the other, and the
\* handler is about to compute the cost basis
C27_Witness ==
    /\ pc = "reduce"
    /\ calls.settlements >= 2
    /\ calls.fills >= 2
    /\ outstanding = 0
    /\ cost_by_ticker = EmptyDict
    /\ Len(all_fills) >= 2

\* the page the exchange serves for the request req
PageFor(req) ==
    IF req.path = "/portfolio/settlements"
    THEN ExchangePage(srvSettlements, srvKind, req.params["limit"], RequestCursor(req))
    ELSE ExchangePage(ServedFills(srvFills, RequestMinTs(req)), srvKind, req.params["limit"],
                      RequestCursor(req))

\* a step in which the running handler receives a successful response
Receives ==
    /\ Runs
    /\ outstanding' = outstanding - 1
    /\ response' # None /\ Is2xx(response'[1])

\* C28: the first page request of a collection carries no cursor; every later
\* one carries exactly the cursor the immediately preceding response returned;
\* the records of every response, the one that ends the loop included, are
\* appended to the collector's list in the order the pages arrive.
C28_CursorChainedPagesAppended ==
    /\ [][Sends =>
            IF sent = None \/ sent[1].path # sent'[1].path
            THEN RequestCursor(sent'[1]) = None
            ELSE /\ PageFor(sent[1]).cursor # None
                 /\ RequestCursor(sent'[1]) = PageFor(sent[1]).cursor]_vars
    /\ [][Receives =>
            IF pc = "settlements"
            THEN /\ all_settlements' = Kept(all_settlements \o PageFor(sent[1]).records)
                 /\ all_fills' = all_fills
            ELSE /\ all_fills' = Kept(all_fills \o PageFor(sent[1]).records)
                 /\ all_settlements' = all_settlements]_vars

\* the settlements came on several pages and are all in the list, the last
\* page's included; the first request for the fills is on the wire, without a
\* cursor
C28_Witness ==
    /\ pc = "fills"
    /\ outstanding = 1
    /\ sent # None
    /\ sent[1].path = "/portfolio/fills"
    /\ RequestCursor(sent[1]) = None
    /\ calls.settlements >= 2
    /\ Len(srvSettlements) = MaxPaged
    /\ all_settlements = srvSettlements

====
